---- MODULE Spec2Model ----
(***************************************************************************)
(* The budget game of the expense-tracking chatbot: the allocation logic   *)
(* of src/lib/allocationLogic.ts and the GameClient component that drives  *)
(* it (both copies of the component: the one with hard-coded English       *)
(* category names and the one that takes them from the message catalogue). *)
(*                                                                         *)
(* Money is a JavaScript number in the source; here it is an integer       *)
(* number of cents, and the few divisions that do not come out even        *)
(* (interest) are rounded to the nearest cent.                             *)
(***************************************************************************)
EXTENDS Integers, Sequences, FiniteSets, TLC

VARIABLES
    client,             \* which GameClient component is mounted: "v1" | "v2"
    gameState,          \* useState<GameState>
    grossSalary,        \* useState<number>: the salary input
    location,           \* useState<string>: the location input, a sequence of characters
    savingsExhausted,   \* useState<boolean>
    debtUsedThisRound,  \* useState<number>
    expertAdvice,       \* useState<string>: the advice shown
    isLoadingAdvice,    \* useState<boolean>
    isLoadingLocation,  \* useState<boolean>
    locationEstimates,  \* useState<estimates | null>
    editableCosts,      \* useState<estimates>
    adviceInFlight,     \* the getExpertAdvice calls still awaiting their response
    actualMode,         \* the mode of the latest handleAllocationSubmit of the round
    lastSettlement,     \* what the latest handleNextPeriod started from
    estimateOutcome,    \* how the latest request for location estimates ended
    roundHistory,       \* what the current round started from and has seen
    choices,            \* how many optional choices the player has made (bounded)
    probe,              \* arguments handed to a pure function under test
    probeResult         \* what it returned

vars == <<client, gameState, grossSalary, location, savingsExhausted,
          debtUsedThisRound, expertAdvice, isLoadingAdvice, isLoadingLocation,
          locationEstimates, editableCosts, adviceInFlight, actualMode,
          lastSettlement, estimateOutcome, roundHistory, choices, probe,
          probeResult>>

uiVars == <<grossSalary, location, isLoadingLocation, locationEstimates, editableCosts>>
probeVars == <<probe, probeResult>>

----------------------------------------------------------------------------
(* Bounds of the model *)

\* The player makes at most this many optional choices: a non-zero amount, an
\* edit of an estimated cost, a retyped location or a second request for
\* estimates, a request for a new analysis, playing again. Everything else
\* (typing the salary and the first location, zero amounts, advancing) is free.
MaxChoices == 1

----------------------------------------------------------------------------
(* Numbers *)

\* a dollar amount of the source, in cents
USD(d) == d * 100

Max(a, b) == IF a >= b THEN a ELSE b
Min(a, b) == IF a <= b THEN a ELSE b
Abs(a) == IF a < 0 THEN 0 - a ELSE a

\* a / b for b > 0, rounded to the nearest cent
RoundDiv(a, b) == (2 * a + b) \div (2 * b)

\* Math.floor of a cents amount, as whole dollars
FloorDollars(c) == c \div 100

----------------------------------------------------------------------------
(* Category registry *)

\* README "Spending Categories": the English labels of the message catalogue
t(key) ==
    CASE key = "transportation" -> "Transportation (Public Transit, Gas, Car Maintenance)"
      [] key = "groceries"      -> "Groceries"
      [] key = "diningOut"      -> "Dining Out"
      [] key = "healthcare"     -> "Healthcare (Insurance, Medical Expenses)"
      [] key = "entertainment"  -> "Entertainment (Leisure, Subscriptions, Events)"
      [] key = "internetPhone"  -> "Internet and Phone Bills"
      [] key = "miscellaneous"  -> "Miscellaneous (Clothing, Personal Care, Household Items)"
      [] key = "savings"        -> "Savings & Emergency Fund"
      [] key = "debtRepayment"  -> "Debt Repayment"

\* const categories = [...] of the first component
categories ==
    << [name |-> "Transportation (Public Transit, Gas, Car Maintenance)", emoji |-> "car"],
       [name |-> "Groceries", emoji |-> "cart"],
       [name |-> "Dining Out", emoji |-> "plate"],
       [name |-> "Healthcare (Insurance, Medical Expenses)", emoji |-> "hospital"],
       [name |-> "Entertainment (Leisure, Subscriptions, Events)", emoji |-> "gamepad"],
       [name |-> "Internet and Phone Bills", emoji |-> "phone"],
       [name |-> "Miscellaneous (Clothing, Personal Care, Household Items)", emoji |-> "bags"],
       [name |-> "Savings & Emergency Fund", emoji |-> "moneybag"],
       [name |-> "Debt Repayment", emoji |-> "card"] >>

\* getCategoriesWithTranslations(t) of the second component
getCategoriesWithTranslations ==
    << [name |-> t("transportation"), emoji |-> "car", key |-> "transportation"],
       [name |-> t("groceries"), emoji |-> "cart", key |-> "groceries"],
       [name |-> t("diningOut"), emoji |-> "plate", key |-> "diningOut"],
       [name |-> t("healthcare"), emoji |-> "hospital", key |-> "healthcare"],
       [name |-> t("entertainment"), emoji |-> "gamepad", key |-> "entertainment"],
       [name |-> t("internetPhone"), emoji |-> "phone", key |-> "internetPhone"],
       [name |-> t("miscellaneous"), emoji |-> "bags", key |-> "miscellaneous"],
       [name |-> t("savings"), emoji |-> "moneybag", key |-> "savings"],
       [name |-> t("debtRepayment"), emoji |-> "card", key |-> "debtRepayment"] >>

\* the category at a 0-based index, in the mounted component
CategoryAt(c, i) ==
    IF c = "v1" THEN [name |-> categories[i + 1].name, emoji |-> categories[i + 1].emoji]
    ELSE [name |-> getCategoriesWithTranslations[i + 1].name,
          emoji |-> getCategoriesWithTranslations[i + 1].emoji]

\* categories.length
NumCategories == Len(categories)

\* the key under which handleNextPeriod looks for the debt repayment record
DebtRepaymentLookupKey(c) == IF c = "v1" THEN "Debt Repayment" ELSE "debtRepayment"

\* Object.values(allocations) summed
RECURSIVE SumAmounts(_, _)
SumAmounts(allocs, keys) ==
    IF keys = {} THEN 0
    ELSE LET k == CHOOSE x \in keys : TRUE
         IN allocs[k].amount + SumAmounts(allocs, keys \ {k})

AllocationTotal(allocs) == SumAmounts(allocs, DOMAIN allocs)

\* the first seven categories: all but Savings & Emergency Fund and Debt Repayment
ConsumptionCategories(c) == {CategoryAt(c, i).name : i \in 0..6}

\* what the round has put into the consumption categories
ConsumptionTotal(c, allocs) ==
    SumAmounts(allocs, DOMAIN allocs \cap ConsumptionCategories(c))

\* {} : an object without keys
EmptyAllocations == [k \in {} |-> [amount |-> 0, emoji |-> ""]]

----------------------------------------------------------------------------
(* src/lib/allocationLogic.ts *)

\* a variant that stores the latest amount as the running total
RecordAllocation_Overwrite(gs, amount, category, emoji) ==
    [gs EXCEPT
        !.allocations = (category :> [amount |-> amount, emoji |-> emoji]) @@ gs.allocations,
        !.allocatedAmount = amount]

\* a variant that keeps no record of a category that got nothing
RecordAllocation_SkipsZero(gs, amount, category, emoji) ==
    IF amount = 0 THEN gs
    ELSE [gs EXCEPT
            !.allocations = (category :> [amount |-> amount, emoji |-> emoji])
                                @@ gs.allocations,
            !.allocatedAmount = gs.allocatedAmount + amount]

\* a variant that records a negative amount as 0
RecordAllocation_Clamps(gs, amount, category, emoji) ==
    [gs EXCEPT
        !.allocations = (category :> [amount |-> Max(0, amount), emoji |-> emoji])
                            @@ gs.allocations,
        !.allocatedAmount = gs.allocatedAmount + Max(0, amount)]

\* { ...gameState, allocations: {...allocations, [category]: {amount, emoji}},
\*   allocatedAmount: allocatedAmount + amount }
RecordAllocation(gs, amount, category, emoji) ==
    [gs EXCEPT
        !.allocations = (category :> [amount |-> amount, emoji |-> emoji]) @@ gs.allocations,
        !.allocatedAmount = gs.allocatedAmount + amount]

\* a variant that keeps what a repayment exceeds the debt by
handleNormalAllocation_DropsExcess(gs, currentAmount, category, emoji) ==
    LET savings1 == IF category = "Savings & Emergency Fund"
                    THEN gs.savings + currentAmount ELSE gs.savings
        repay == category = "Debt Repayment"
    IN [newGameState |-> RecordAllocation(gs, currentAmount, category, emoji),
        newSavings |-> IF repay /\ currentAmount > 0 /\ gs.debt = 0
                       THEN savings1 + currentAmount ELSE savings1,
        newDebt |-> IF repay /\ currentAmount > 0 /\ gs.debt > 0
                    THEN Max(0, gs.debt - currentAmount) ELSE gs.debt,
        savingsExhausted |-> FALSE]

handleNormalAllocation(gs, currentAmount, category, emoji) ==
    LET savings1 == IF category = "Savings & Emergency Fund"
                    THEN gs.savings + currentAmount ELSE gs.savings
        repay == category = "Debt Repayment"
        newSavings ==
            IF repay /\ currentAmount > 0 /\ gs.debt > 0
            THEN (IF currentAmount >= gs.debt
                  THEN savings1 + (currentAmount - gs.debt) ELSE savings1)
            ELSE IF repay /\ currentAmount > 0 /\ gs.debt = 0
                 THEN savings1 + currentAmount
                 ELSE savings1
        newDebt ==
            IF repay /\ currentAmount > 0 /\ gs.debt > 0
            THEN (IF currentAmount >= gs.debt THEN 0 ELSE gs.debt - currentAmount)
            ELSE gs.debt
    IN [newGameState |-> RecordAllocation(gs, currentAmount, category, emoji),
        newSavings |-> newSavings, newDebt |-> newDebt, savingsExhausted |-> FALSE]

\* a variant that reports exhaustion only when the savings are overdrawn
handleSavingsAllocation_OnlyOnOverdraw(gs, savingsAmount, category, emoji) ==
    LET over == savingsAmount > gs.savings
    IN [newGameState |-> RecordAllocation(gs, savingsAmount, category, emoji),
        newSavings |-> IF over THEN 0 ELSE gs.savings - savingsAmount,
        newDebt |-> IF over THEN gs.debt + (savingsAmount - gs.savings) ELSE gs.debt,
        savingsExhausted |-> over]

handleSavingsAllocation(gs, savingsAmount, category, emoji) ==
    LET over == savingsAmount > gs.savings
    IN [newGameState |-> RecordAllocation(gs, savingsAmount, category, emoji),
        newSavings |-> IF over THEN 0 ELSE gs.savings - savingsAmount,
        newDebt |-> IF over THEN gs.debt + (savingsAmount - gs.savings) ELSE gs.debt,
        savingsExhausted |-> IF over THEN TRUE ELSE gs.savings - savingsAmount <= 0]

handleDebtAllocation(gs, debtAmount, category, emoji) ==
    [newGameState |-> RecordAllocation(gs, debtAmount, category, emoji),
     newSavings |-> gs.savings,
     newDebt |-> gs.debt + debtAmount,
     savingsExhausted |-> FALSE]

\* monthlySalary / 4 - debtUsedThisRound, times 4 to stay in whole cents
DebtRoomTimes4(gs, used) == gs.monthlySalary - 4 * used

\* Math.max(0, monthlySalary / 4 - debtUsedThisRound) > 0
HasDebtRoom(gs, used) == DebtRoomTimes4(gs, used) > 0

\* a variant that looks at the savings before the money left to allocate
determineAllocationMode_SavingsFirst(gs, remainingToAllocate, used, exhausted) ==
    IF gs.savings > 0 /\ ~exhausted THEN "savings"
    ELSE IF remainingToAllocate > 0 THEN "normal"
    ELSE IF HasDebtRoom(gs, used) THEN "debt"
    ELSE "null"

determineAllocationMode(gs, remainingToAllocate, used, exhausted) ==
    IF remainingToAllocate > 0 THEN "normal"
    ELSE IF gs.savings > 0 /\ ~exhausted THEN "savings"
    ELSE IF HasDebtRoom(gs, used) THEN "debt"
    ELSE "null"

\* a variant that offers what is left of half a month's salary
getAvailableDebtAllocation_HalfSalary(gs, used) ==
    Max(0, (2 * gs.monthlySalary - 4 * used) \div 4)

\* Math.max(0, monthlySalary / 4 - debtUsedThisRound), rounded down to a cent
getAvailableDebtAllocation(gs, used) ==
    Max(0, DebtRoomTimes4(gs, used) \div 4)

----------------------------------------------------------------------------
(* GameClient: module-level helpers *)

\* biweeklyIncome is a whole number of dollars (a fractional index finds no entry)
IsWholeDollars(c) == c % 100 = 0

\* the events table: the adjustment of entry i (0-based), in cents
EventAdjustment(biweeklyIncome, i) ==
    CASE i = 0 -> 0 - USD(150)
      [] i = 1 -> 0 - USD(FloorDollars((biweeklyIncome * 5) \div 100))
      [] i = 2 -> 0 - USD(100)
      [] i = 3 -> USD(100)
      [] i = 4 -> USD(50)
      [] i = 5 -> USD(75)
      [] i = 6 -> 0 - USD(120)
      [] i = 7 -> USD(60)
      [] i = 8 -> USD(30)
      [] i = 9 -> 0 - USD(80)

\* ((biweeklyIncome || 0) + (iteration || 1)) % events.length, then
\* events[index] || events[0]: a negative or fractional index finds no entry
EventIndex(biweeklyIncome, iteration) ==
    LET it == IF iteration = 0 THEN 1 ELSE iteration
    IN IF IsWholeDollars(biweeklyIncome) /\ biweeklyIncome \div 100 + it >= 0
       THEN (biweeklyIncome \div 100 + it) % 10
       ELSE 0

generateRandomEvent(biweeklyIncome, iteration) ==
    LET index == EventIndex(biweeklyIncome, iteration)
    IN [index |-> index, adjustment |-> EventAdjustment(biweeklyIncome, index)]

\* the catch branch of getLocationCostEstimates
FallbackEstimates == [housing_cost |-> USD(1200), utility_cost |-> USD(200), tax_rate |-> 25]

\* String.prototype.trim on a sequence of characters
RECURSIVE TrimStart(_)
TrimStart(s) == IF s # <<>> /\ Head(s) = " " THEN TrimStart(Tail(s)) ELSE s
RECURSIVE TrimEnd(_)
TrimEnd(s) == IF s # <<>> /\ s[Len(s)] = " " THEN TrimEnd(SubSeq(s, 1, Len(s) - 1)) ELSE s
Trim(s) == TrimEnd(TrimStart(s))

----------------------------------------------------------------------------
(* GameClient: state *)

\* the initial GameState of useState and of resetGame
InitialGameState ==
    [stage |-> "salary", grossMonthlySalary |-> 0, monthlySalary |-> 0,
     location |-> <<>>, biweeklyIncome |-> 0, currentBalance |-> 0, iteration |-> 1,
     currentCategoryIndex |-> 0, allocations |-> EmptyAllocations, allocatedAmount |-> 0,
     debt |-> 0, costOfDebt |-> 0, savings |-> 0, housingCost |-> 0, utilityCost |-> 0,
     taxRate |-> 25]

\* useState initial value of editableCosts
InitialEditableCosts == [housing_cost |-> USD(1200), utility_cost |-> USD(200), tax_rate |-> 25]

NoAdvice == [kind |-> "none", iteration |-> 0]
NoProbe == [fn |-> "none"]
NoResult == [called |-> FALSE]
NoSettlement == [iteration |-> 0]
\* locationEstimates before any estimate has arrived
NullEstimates == [isNull |-> TRUE]

\* currentBalance + savings - debt
NetWorth(gs) == gs.currentBalance + gs.savings - gs.debt

\* a round as it starts: what the player owns, and whether there are savings
RoundStart(gs) ==
    [netWorth |-> NetWorth(gs),
     zeroSavings |-> IF gs.savings = 0 THEN "at_start" ELSE "never"]

\* a round after a submission: savings that were there may have reached zero
AfterSubmission(history, old, new) ==
    [history EXCEPT !.zeroSavings =
        IF new.savings = 0 /\ old.savings > 0 THEN "reached" ELSE @]

\* newDebt * 0.15 / 26
CostOfDebt(debt) == RoundDiv(debt * 15, 2600)

\* newDebt * 0.15 / 12
MonthlyInterest(debt) == RoundDiv(debt * 15, 1200)

----------------------------------------------------------------------------
(* GameClient: what a render of the budget allocation stage computes *)

BiweeklyFixedCosts(gs) == gs.housingCost \div 2 + gs.utilityCost \div 2

CurrentPeriodIncome(gs) ==
    IF gs.iteration = 1 THEN gs.biweeklyIncome ELSE gs.currentBalance + gs.biweeklyIncome

DiscretionaryIncome(gs) == CurrentPeriodIncome(gs) - BiweeklyFixedCosts(gs) - gs.costOfDebt

RemainingToAllocate(gs) == DiscretionaryIncome(gs) - gs.allocatedAmount

\* allocationMode of the current render
AllocationMode ==
    determineAllocationMode(gameState, RemainingToAllocate(gameState),
                            debtUsedThisRound, savingsExhausted)

\* isUsingSavings and isUsingDebt are never set to true
ShouldActivateSavings == AllocationMode = "savings"
ShouldActivateDebt ==
    AllocationMode = "debt" /\ getAvailableDebtAllocation(gameState, debtUsedThisRound) > 0

\* the slider position tried between the two ends
PartialAmount == USD(50)

\* the values a slider with step 5 and the given maximum can be left at
SliderValues(max) ==
    IF max <= 0 THEN {0}
    ELSE {0, max} \cup {a \in {PartialAmount} : a < max}

----------------------------------------------------------------------------
(* GameClient: effects, run in this order after every commit *)

\* a variant whose savings effect makes the flag follow the savings
SavingsExhaustedAfterEffects_TrackSavings(flag, old, new) ==
    IF new.savings # old.savings THEN new.savings = 0
    ELSE IF new.currentCategoryIndex # old.currentCategoryIndex
            /\ new.currentCategoryIndex = 0
         THEN FALSE ELSE flag

\* useEffect(..., [gameState.currentCategoryIndex]) then useEffect(..., [gameState.savings]):
\* the flag is cleared when the index changes to 0, then set when savings
\* change to 0
SavingsExhaustedAfterEffects(flag, old, new) ==
    LET afterIndexEffect ==
            IF new.currentCategoryIndex # old.currentCategoryIndex
               /\ new.currentCategoryIndex = 0
            THEN FALSE ELSE flag
    IN IF new.savings # old.savings /\ new.savings = 0 THEN TRUE ELSE afterIndexEffect

\* useEffect(..., [gameState.stage, gameState.iteration]): fetchExpertAdvice is
\* called when the summary stage is entered with no advice shown or loading
AutoTriggerAdvice(old, new, advice, loading) ==
    /\ new.stage # old.stage \/ new.iteration # old.iteration
    /\ new.stage = "summary"
    /\ advice = NoAdvice
    /\ ~loading

\* a commit of new component state, followed by the effects
Commit(newGs, flag, used, advice, loading) ==
    LET trigger == AutoTriggerAdvice(gameState, newGs, advice, loading)
    IN /\ gameState' = newGs
       /\ savingsExhausted' = SavingsExhaustedAfterEffects(flag, gameState, newGs)
       /\ debtUsedThisRound' = used
       /\ expertAdvice' = advice
       /\ isLoadingAdvice' = (loading \/ trigger)
       /\ adviceInFlight' =
            IF trigger THEN adviceInFlight \cup {newGs.iteration} ELSE adviceInFlight

----------------------------------------------------------------------------
(* GameClient: the inputs tried *)

SalaryInputs == {0 - USD(1000), 0, USD(2040)}
LocationInputs == {<<>>, <<" ">>, <<" ", "A">>}
HousingInputs == {USD(4000)}
UtilityInputs == {USD(250)}
TaxRateInputs == {150}
\* what /api/location-costs answers when the model call succeeds
EstimateResponses == {[housing_cost |-> USD(2000), utility_cost |-> USD(300), tax_rate |-> 20]}
\* an answer of the model that lacks a field
IncompleteResponses == {[housing_cost |-> USD(2000), utility_cost |-> USD(300), tax_rate |-> 0]}

----------------------------------------------------------------------------
(* GameClient: salary and location stages *)

\* onChange of the salary input
SetGrossSalary(v) ==
    /\ gameState.stage = "salary"
    /\ grossSalary' = v
    /\ UNCHANGED <<client, gameState, location, savingsExhausted, debtUsedThisRound,
                   expertAdvice, isLoadingAdvice, isLoadingLocation, locationEstimates,
                   editableCosts, adviceInFlight, actualMode, lastSettlement,
                   estimateOutcome, roundHistory, choices, probe, probeResult>>

handleSalarySubmit ==
    /\ gameState.stage = "salary"
    /\ IF grossSalary <= 0
       THEN UNCHANGED <<gameState, savingsExhausted, debtUsedThisRound, expertAdvice,
                        isLoadingAdvice, adviceInFlight>>
       ELSE Commit([gameState EXCEPT !.grossMonthlySalary = grossSalary,
                                     !.stage = "location"],
                   savingsExhausted, debtUsedThisRound, expertAdvice, isLoadingAdvice)
    /\ UNCHANGED <<client, uiVars, actualMode, lastSettlement, estimateOutcome,
                   roundHistory, choices, probeVars>>

\* onChange of the location input (disabled while the estimates load)
SetLocation(s) ==
    /\ gameState.stage = "location"
    /\ ~isLoadingLocation
    /\ locationEstimates # NullEstimates => choices < MaxChoices
    /\ location' = s
    /\ choices' = IF locationEstimates # NullEstimates THEN choices + 1 ELSE choices
    /\ UNCHANGED <<client, gameState, grossSalary, savingsExhausted, debtUsedThisRound,
                   expertAdvice, isLoadingAdvice, isLoadingLocation, locationEstimates,
                   editableCosts, adviceInFlight, actualMode, lastSettlement,
                   estimateOutcome, roundHistory, probe, probeResult>>

\* handleLocationSubmit up to its await
handleLocationSubmit ==
    /\ gameState.stage = "location"
    /\ ~isLoadingLocation
    /\ locationEstimates # NullEstimates => choices < MaxChoices
    /\ isLoadingLocation' = (Trim(location) # <<>>)
    /\ choices' = IF locationEstimates # NullEstimates THEN choices + 1 ELSE choices
    /\ estimateOutcome' = IF Trim(location) # <<>> THEN "pending" ELSE estimateOutcome
    /\ UNCHANGED <<client, gameState, grossSalary, location, savingsExhausted,
                   debtUsedThisRound, expertAdvice, isLoadingAdvice, locationEstimates,
                   editableCosts, adviceInFlight, actualMode, lastSettlement,
                   roundHistory, probe, probeResult>>

\* POST /api/location-costs: "Validate the response structure" (a field that is
\* absent or 0 fails it)
ValidEstimates(data) ==
    data.housing_cost # 0 /\ data.utility_cost # 0 /\ data.tax_rate # 0

\* the catch branch of POST /api/location-costs
RouteFallbackEstimates ==
    [housing_cost |-> USD(1200), utility_cost |-> USD(200), tax_rate |-> 25]

\* how a request for estimates can end: the model answers; fetch rejects or the
\* body is no JSON; the route has no API key (status 500); the model call
\* throws or answers nothing; the answer is no JSON
EstimateOutcomes ==
    {"answered", "network_error", "no_api_key", "model_error", "undecodable"}

\* the outcomes in which the estimate call has failed
FailedOutcomes ==
    {"network_error", "no_api_key", "model_error", "undecodable", "missing_field"}

\* how a request has ended, telling an incomplete answer from a complete one
OutcomeOf(outcome, data) ==
    IF outcome = "answered" /\ ~ValidEstimates(data) THEN "missing_field" ELSE outcome

\* POST /api/location-costs: whether the response is OK, and its body
LocationCostsRoute(outcome, data) ==
    CASE outcome = "no_api_key" -> [ok |-> FALSE, body |-> NullEstimates]
      [] outcome = "answered" /\ ValidEstimates(data) -> [ok |-> TRUE, body |-> data]
      [] OTHER -> [ok |-> TRUE, body |-> RouteFallbackEstimates]

\* getLocationCostEstimates without its check of response.ok
getLocationCostEstimates_IgnoresStatus(ok, data) == data

\* getLocationCostEstimates: the response, or the fallback when the call fails
getLocationCostEstimates(ok, data) == IF ok THEN data ELSE FallbackEstimates

\* fetch('/api/location-costs') and getLocationCostEstimates on its result
FetchLocationCosts(outcome, data) ==
    LET response == LocationCostsRoute(outcome, data)
    IN getLocationCostEstimates(outcome # "network_error" /\ response.ok, response.body)

\* handleLocationSubmit after its await
LocationEstimatesArrive(outcome, data) ==
    /\ isLoadingLocation
    /\ locationEstimates' = FetchLocationCosts(outcome, data)
    /\ editableCosts' = FetchLocationCosts(outcome, data)
    /\ isLoadingLocation' = FALSE
    /\ estimateOutcome' = OutcomeOf(outcome, data)
    /\ UNCHANGED <<client, gameState, grossSalary, location, savingsExhausted,
                   debtUsedThisRound, expertAdvice, isLoadingAdvice, adviceInFlight,
                   actualMode, lastSettlement, roundHistory, choices, probe,
                   probeResult>>

\* onChange of the three cost inputs, shown once estimates are loaded
SetEditableCost(field, v) ==
    /\ gameState.stage = "location"
    /\ locationEstimates # NullEstimates
    /\ choices < MaxChoices
    /\ editableCosts' = [editableCosts EXCEPT ![field] = v]
    /\ choices' = choices + 1
    /\ UNCHANGED <<client, gameState, grossSalary, location, savingsExhausted,
                   debtUsedThisRound, expertAdvice, isLoadingAdvice, isLoadingLocation,
                   locationEstimates, adviceInFlight, actualMode, lastSettlement,
                   estimateOutcome, roundHistory, probe, probeResult>>

\* Number(grossSalary) * (1 - taxRate / 100), with the tax kept instead
NetMonthlySalary_TaxOnly(gross, taxRate) == (gross * taxRate) \div 100

\* Number(grossSalary) * (1 - taxRate / 100)
NetMonthlySalary(gross, taxRate) == (gross * (100 - taxRate)) \div 100

handleContinueWithCosts ==
    /\ gameState.stage = "location"
    /\ locationEstimates # NullEstimates
    /\ LET taxRate == editableCosts.tax_rate
           monthlySalary == NetMonthlySalary(grossSalary, taxRate)
           biweeklyIncome == monthlySalary \div 2
       IN Commit([gameState EXCEPT !.location = location,
                                   !.monthlySalary = monthlySalary,
                                   !.biweeklyIncome = biweeklyIncome,
                                   !.currentBalance = 0,
                                   !.housingCost = editableCosts.housing_cost,
                                   !.utilityCost = editableCosts.utility_cost,
                                   !.taxRate = taxRate,
                                   !.stage = "budget_allocation"],
                 savingsExhausted, debtUsedThisRound, expertAdvice, isLoadingAdvice)
    /\ estimateOutcome' = "none"
    /\ roundHistory' = RoundStart(gameState')
    /\ UNCHANGED <<client, uiVars, actualMode, lastSettlement, choices, probeVars>>

----------------------------------------------------------------------------
(* GameClient: budget allocation stage *)

handleAllocationSubmit(amountToUse, mode) ==
    LET currentCategory == CategoryAt(client, gameState.currentCategoryIndex)
        result ==
            IF mode = "savings"
            THEN handleSavingsAllocation(gameState, amountToUse,
                                         currentCategory.name, currentCategory.emoji)
            ELSE IF mode = "debt"
            THEN handleDebtAllocation(gameState, amountToUse,
                                      currentCategory.name, currentCategory.emoji)
            ELSE handleNormalAllocation(gameState, amountToUse,
                                        currentCategory.name, currentCategory.emoji)
        newCategoryIndex == gameState.currentCategoryIndex + 1
        newGameState ==
            [result.newGameState EXCEPT
                !.currentCategoryIndex = newCategoryIndex,
                !.savings = result.newSavings,
                !.debt = result.newDebt,
                !.costOfDebt = CostOfDebt(result.newDebt),
                !.stage = IF newCategoryIndex >= NumCategories THEN "summary" ELSE @]
        flag == IF mode = "savings" /\ result.savingsExhausted THEN TRUE ELSE savingsExhausted
        used == IF mode = "debt" THEN debtUsedThisRound + amountToUse ELSE debtUsedThisRound
    IN /\ Commit(newGameState, flag, used, expertAdvice, isLoadingAdvice)
       /\ actualMode' = mode
       /\ UNCHANGED <<lastSettlement, estimateOutcome>>
       /\ roundHistory' = AfterSubmission(roundHistory, gameState, newGameState)
       /\ choices' = IF amountToUse > 0 THEN choices + 1 ELSE choices
       /\ UNCHANGED <<client, uiVars, probeVars>>

\* the categories (0-based) the player puts money in: one of the seven ordinary
\* ones, which the appliers treat alike, and the two special ones
SpendingIndexes == {1, 7, 8}

\* the rounds in which the player puts money in (the first, an even one and a
\* later one that starts with a balance carried over); in the others every
\* category gets 0
SpendingIterations == {1, 2, 4}

\* the player may still pick a non-zero amount
MayPick(amount) ==
    \/ amount = 0
    \/ /\ choices < MaxChoices
       /\ gameState.currentCategoryIndex \in SpendingIndexes
       /\ gameState.iteration \in SpendingIterations

\* a variant whose Continue button stays enabled beside the savings and debt panels
ContinueClick_NeverDisabled(amount) ==
    /\ gameState.stage = "budget_allocation"
    /\ gameState.currentCategoryIndex < NumCategories
    /\ amount \in (IF AllocationMode = "normal"
                   THEN SliderValues(RemainingToAllocate(gameState)) ELSE {0})
    /\ MayPick(amount)
    /\ handleAllocationSubmit(amount, "normal")

\* the Continue button: handleAllocationSubmit() with the slider's currentAmount,
\* which is 0 whenever the slider is not shown
ContinueClick(amount) ==
    /\ gameState.stage = "budget_allocation"
    /\ gameState.currentCategoryIndex < NumCategories
    /\ ~ShouldActivateSavings
    /\ ~ShouldActivateDebt
    /\ amount \in (IF AllocationMode = "normal"
                   THEN SliderValues(RemainingToAllocate(gameState)) ELSE {0})
    /\ MayPick(amount)
    /\ handleAllocationSubmit(amount, "normal")

\* the Use Savings button: handleAllocationSubmit(savingsAmount, 'savings')
UseSavingsClick(amount) ==
    /\ gameState.stage = "budget_allocation"
    /\ gameState.currentCategoryIndex < NumCategories
    /\ ShouldActivateSavings
    /\ amount \in SliderValues(gameState.savings)
    /\ MayPick(amount)
    /\ handleAllocationSubmit(amount, "savings")

\* the Use Debt button: handleAllocationSubmit(debtAmount, 'debt')
UseDebtClick(amount) ==
    /\ gameState.stage = "budget_allocation"
    /\ gameState.currentCategoryIndex < NumCategories
    /\ ShouldActivateDebt
    /\ amount \in SliderValues(getAvailableDebtAllocation(gameState, debtUsedThisRound))
    /\ MayPick(amount)
    /\ handleAllocationSubmit(amount, "debt")

----------------------------------------------------------------------------
(* GameClient: period settlement *)

\* a variant that also charges what the fixed costs exceed the income by
SettlementBalance_ChargesFixedCostsTwice(gs) ==
    gs.currentBalance + gs.biweeklyIncome - BiweeklyFixedCosts(gs) - gs.allocatedAmount
        + generateRandomEvent(gs.biweeklyIncome, gs.iteration).adjustment
        + Min(0, DiscretionaryIncome(gs))

\* a variant that starts every period from the income alone
SettlementBalance_IgnoresCarryOver(gs) ==
    gs.biweeklyIncome - BiweeklyFixedCosts(gs) - gs.allocatedAmount
        + generateRandomEvent(gs.biweeklyIncome, gs.iteration).adjustment

\* newBalance before the waterfall
SettlementBalance(gs) ==
    gs.currentBalance + gs.biweeklyIncome - BiweeklyFixedCosts(gs) - gs.allocatedAmount
        + generateRandomEvent(gs.biweeklyIncome, gs.iteration).adjustment

\* a variant without the Math.max(0, ...)
SettlementDebtRepayment_NoFloor(c, gs) ==
    LET key == DebtRepaymentLookupKey(c)
    IN IF key \in DOMAIN gs.allocations
          /\ gs.allocations[key].amount > 0 /\ gs.debt > 0
       THEN gs.debt - gs.allocations[key].amount
       ELSE gs.debt

\* "Handle debt repayment (already handled in allocation stage)"
SettlementDebtRepayment(c, gs) ==
    LET key == DebtRepaymentLookupKey(c)
    IN IF key \in DOMAIN gs.allocations
          /\ gs.allocations[key].amount > 0 /\ gs.debt > 0
       THEN Max(0, gs.debt - gs.allocations[key].amount)
       ELSE gs.debt

\* a variant that forgets what the savings could not cover
Waterfall_DropsRemainder(newBalance, newSavings, newDebt) ==
    IF newBalance < 0
    THEN [balance |-> 0, savings |-> Max(0, newSavings - Abs(newBalance)), debt |-> newDebt]
    ELSE [balance |-> newBalance, savings |-> newSavings, debt |-> newDebt]

\* a variant that puts the shortfall on the debt and spares the savings
Waterfall_DebtFirst(newBalance, newSavings, newDebt) ==
    IF newBalance < 0
    THEN [balance |-> 0, savings |-> newSavings, debt |-> newDebt + Abs(newBalance)]
    ELSE [balance |-> newBalance, savings |-> newSavings, debt |-> newDebt]

\* "If balance goes negative, use savings first, then create debt"
Waterfall(newBalance, newSavings, newDebt) ==
    IF newBalance < 0
    THEN LET shortfall == Abs(newBalance)
         IN IF newSavings >= shortfall
            THEN [balance |-> 0, savings |-> newSavings - shortfall, debt |-> newDebt]
            ELSE [balance |-> 0, savings |-> 0, debt |-> newDebt + (shortfall - newSavings)]
    ELSE [balance |-> newBalance, savings |-> newSavings, debt |-> newDebt]

\* a variant that charges the monthly interest in every period
AccrueInterest_EveryPeriod(iteration, newDebt) ==
    IF newDebt > 0 THEN newDebt + MonthlyInterest(newDebt) ELSE newDebt

\* "Add monthly interest to debt (every 2 iterations = 1 month)"
AccrueInterest(iteration, newDebt) ==
    IF iteration % 2 = 0 /\ newDebt > 0 THEN newDebt + MonthlyInterest(newDebt) ELSE newDebt

\* newIteration > 12 ? 'game_over' : 'budget_allocation'
LastIteration == 12

\* a variant that ends the game one period early
handleNextPeriod_EndsEarly(c, gs) ==
    LET w == Waterfall(SettlementBalance(gs), gs.savings, SettlementDebtRepayment(c, gs))
        newDebt == AccrueInterest(gs.iteration, w.debt)
        newIteration == gs.iteration + 1
    IN [gs EXCEPT !.currentBalance = w.balance,
                  !.debt = newDebt,
                  !.savings = w.savings,
                  !.costOfDebt = CostOfDebt(newDebt),
                  !.iteration = newIteration,
                  !.currentCategoryIndex = 0,
                  !.allocations = EmptyAllocations,
                  !.allocatedAmount = 0,
                  !.stage = IF newIteration >= LastIteration
                            THEN "game_over" ELSE "budget_allocation"]

\* a variant that leaves costOfDebt as the allocation phase left it
handleNextPeriod_KeepsCostOfDebt(c, gs) ==
    LET w == Waterfall(SettlementBalance(gs), gs.savings, SettlementDebtRepayment(c, gs))
        newDebt == AccrueInterest(gs.iteration, w.debt)
        newIteration == gs.iteration + 1
    IN [gs EXCEPT !.currentBalance = w.balance,
                  !.debt = newDebt,
                  !.savings = w.savings,
                  !.iteration = newIteration,
                  !.currentCategoryIndex = 0,
                  !.allocations = EmptyAllocations,
                  !.allocatedAmount = 0,
                  !.stage = IF newIteration > LastIteration
                            THEN "game_over" ELSE "budget_allocation"]

\* a variant that skips a period
handleNextPeriod_SkipsPeriod(c, gs) ==
    LET w == Waterfall(SettlementBalance(gs), gs.savings, SettlementDebtRepayment(c, gs))
        newDebt == AccrueInterest(gs.iteration, w.debt)
        newIteration == gs.iteration + 2
    IN [gs EXCEPT !.currentBalance = w.balance,
                  !.debt = newDebt,
                  !.savings = w.savings,
                  !.costOfDebt = CostOfDebt(newDebt),
                  !.iteration = newIteration,
                  !.currentCategoryIndex = 0,
                  !.allocations = EmptyAllocations,
                  !.allocatedAmount = 0,
                  !.stage = IF newIteration > LastIteration
                            THEN "game_over" ELSE "budget_allocation"]

\* a variant that carries the round's total into the next round
handleNextPeriod_KeepsAllocatedAmount(c, gs) ==
    LET w == Waterfall(SettlementBalance(gs), gs.savings, SettlementDebtRepayment(c, gs))
        newDebt == AccrueInterest(gs.iteration, w.debt)
        newIteration == gs.iteration + 1
    IN [gs EXCEPT !.currentBalance = w.balance,
                  !.debt = newDebt,
                  !.savings = w.savings,
                  !.costOfDebt = CostOfDebt(newDebt),
                  !.iteration = newIteration,
                  !.currentCategoryIndex = 0,
                  !.allocations = EmptyAllocations,
                  !.stage = IF newIteration > LastIteration
                            THEN "game_over" ELSE "budget_allocation"]

handleNextPeriod(c, gs) ==
    LET w == Waterfall(SettlementBalance(gs), gs.savings, SettlementDebtRepayment(c, gs))
        newDebt == AccrueInterest(gs.iteration, w.debt)
        newIteration == gs.iteration + 1
    IN [gs EXCEPT !.currentBalance = w.balance,
                  !.debt = newDebt,
                  !.savings = w.savings,
                  !.costOfDebt = CostOfDebt(newDebt),
                  !.iteration = newIteration,
                  !.currentCategoryIndex = 0,
                  !.allocations = EmptyAllocations,
                  !.allocatedAmount = 0,
                  !.stage = IF newIteration > LastIteration
                            THEN "game_over" ELSE "budget_allocation"]

\* what a render of the summary stage computes and shows as the result of the
\* round: the settlement's steps up to the waterfall, then "Add debt from fixed
\* costs if they exceeded income (use savings first)"
SummaryStage(c, gs) ==
    LET event == generateRandomEvent(gs.biweeklyIncome, gs.iteration)
        newBalance == CurrentPeriodIncome(gs) - BiweeklyFixedCosts(gs) - gs.allocatedAmount
                         + event.adjustment
        w == Waterfall(newBalance, gs.savings, SettlementDebtRepayment(c, gs))
        debtFromFixedCosts ==
            IF DiscretionaryIncome(gs) < 0 THEN Abs(DiscretionaryIncome(gs)) ELSE 0
    IN [event |-> event,
        newBalance |-> w.balance,
        newSavings |-> IF debtFromFixedCosts > 0
                       THEN Max(0, w.savings - debtFromFixedCosts) ELSE w.savings,
        newDebt |-> IF debtFromFixedCosts > 0 /\ w.savings < debtFromFixedCosts
                    THEN w.debt + (debtFromFixedCosts - w.savings) ELSE w.debt]

\* the Next Period button of the summary stage, shown while iteration < 12
NextPeriodClick ==
    /\ gameState.stage = "summary"
    /\ gameState.iteration < LastIteration
    /\ Commit(handleNextPeriod(client, gameState), savingsExhausted, 0,
              expertAdvice, isLoadingAdvice)
    /\ actualMode' = "none"
    /\ lastSettlement' = [iteration |-> gameState.iteration,
                          currentBalance |-> gameState.currentBalance,
                          allocatedAmount |-> gameState.allocatedAmount,
                          debtUsedThisRound |-> debtUsedThisRound,
                          roundStartNetWorth |-> roundHistory.netWorth,
                          consumption |-> ConsumptionTotal(client, gameState.allocations),
                          shown |-> SummaryStage(client, gameState),
                          balance |-> SettlementBalance(gameState),
                          discretionaryIncome |-> DiscretionaryIncome(gameState),
                          savings |-> gameState.savings,
                          debt |-> gameState.debt]
    /\ roundHistory' = RoundStart(handleNextPeriod(client, gameState))
    /\ UNCHANGED <<client, uiVars, estimateOutcome, choices, probeVars>>

\* the Play Again button: of the summary stage once iteration < 12 fails, and of
\* the game over stage
resetGame ==
    /\ (gameState.stage = "summary" /\ ~(gameState.iteration < LastIteration))
          \/ gameState.stage = "game_over"
    /\ Commit(InitialGameState, FALSE, 0, NoAdvice, FALSE)
    /\ grossSalary' = 0
    /\ location' = <<>>
    /\ isLoadingLocation' = FALSE
    /\ locationEstimates' = NullEstimates
    /\ editableCosts' = InitialEditableCosts
    /\ actualMode' = "none"
    /\ lastSettlement' = NoSettlement
    /\ estimateOutcome' = "none"
    /\ roundHistory' = RoundStart(InitialGameState)
    /\ choices < MaxChoices
    /\ choices' = choices + 1
    /\ UNCHANGED <<client, probeVars>>

----------------------------------------------------------------------------
(* GameClient: expert advice *)

\* fetchExpertAdvice up to its await, from the buttons: "get new analysis" of the
\* summary stage (shown with advice on screen) and "get final advice" of the
\* game over stage (shown with none)
FetchExpertAdviceClick ==
    /\ ~isLoadingAdvice
    /\ (gameState.stage = "summary" /\ expertAdvice # NoAdvice)
          \/ (gameState.stage = "game_over" /\ expertAdvice = NoAdvice)
    /\ choices < MaxChoices
    /\ isLoadingAdvice' = TRUE
    /\ adviceInFlight' = adviceInFlight \cup {gameState.iteration}
    /\ choices' = choices + 1
    /\ UNCHANGED <<client, gameState, uiVars, savingsExhausted, debtUsedThisRound,
                   expertAdvice, actualMode, lastSettlement, estimateOutcome,
                   roundHistory, probeVars>>

\* getExpertAdvice: data.advice, or the fixed string when the call fails
getExpertAdvice(ok, iteration) ==
    IF ok THEN [kind |-> "advice", iteration |-> iteration]
    ELSE [kind |-> "fallback", iteration |-> 0]

\* fetchExpertAdvice after its await
AdviceArrives(ok, iteration) ==
    /\ iteration \in adviceInFlight
    /\ expertAdvice' = getExpertAdvice(ok, iteration)
    /\ isLoadingAdvice' = FALSE
    /\ adviceInFlight' = adviceInFlight \ {iteration}
    /\ UNCHANGED <<client, gameState, uiVars, savingsExhausted, debtUsedThisRound,
                   actualMode, lastSettlement, estimateOutcome, roundHistory, choices, probeVars>>

----------------------------------------------------------------------------
(* The session *)

Init ==
    /\ client \in {"v1", "v2"}
    /\ gameState = InitialGameState
    /\ grossSalary = 0
    /\ location = <<>>
    \* after mount the index effect clears the flag and the savings effect,
    \* which runs next with savings 0, sets it
    /\ savingsExhausted = TRUE
    /\ debtUsedThisRound = 0
    /\ expertAdvice = NoAdvice
    /\ isLoadingAdvice = FALSE
    /\ isLoadingLocation = FALSE
    /\ locationEstimates = NullEstimates
    /\ editableCosts = InitialEditableCosts
    /\ adviceInFlight = {}
    /\ actualMode = "none"
    /\ lastSettlement = NoSettlement
    /\ estimateOutcome = "none"
    /\ roundHistory = RoundStart(InitialGameState)
    /\ choices = 0
    /\ probe = NoProbe
    /\ probeResult = NoResult

Next ==
    \/ \E v \in SalaryInputs : SetGrossSalary(v)
    \/ handleSalarySubmit
    \/ \E s \in LocationInputs : SetLocation(s)
    \/ handleLocationSubmit
    \/ \E outcome \in EstimateOutcomes :
          \E data \in EstimateResponses \cup IncompleteResponses :
             LocationEstimatesArrive(outcome, data)
    \/ \E v \in HousingInputs : SetEditableCost("housing_cost", v)
    \/ \E v \in UtilityInputs : SetEditableCost("utility_cost", v)
    \/ \E v \in TaxRateInputs : SetEditableCost("tax_rate", v)
    \/ handleContinueWithCosts
    \/ \E a \in SliderValues(RemainingToAllocate(gameState)) : ContinueClick(a)
    \/ \E a \in SliderValues(gameState.savings) : UseSavingsClick(a)
    \/ \E a \in SliderValues(getAvailableDebtAllocation(gameState, debtUsedThisRound)) :
          UseDebtClick(a)
    \/ NextPeriodClick
    \/ resetGame
    \/ FetchExpertAdviceClick
    \/ \E ok \in BOOLEAN : \E i \in adviceInFlight : AdviceArrives(ok, i)

Spec == Init /\ [][Next]_vars

----------------------------------------------------------------------------
(* Pure functions applied to drawn arguments *)

ProbeRemaining == {0 - USD(100), 0, USD(100)}
ProbeSavings == {0, USD(100)}
ProbeDebtUsed == {0, USD(100), USD(250), USD(300)}
ProbeMonthlySalary == {0 - USD(400), 0, USD(1000)}

ModeProbes ==
    [fn : {"determineAllocationMode"}, remainingToAllocate : ProbeRemaining,
     savings : ProbeSavings, savingsExhausted : BOOLEAN,
     debtUsedThisRound : ProbeDebtUsed, monthlySalary : ProbeMonthlySalary]

\* the GameState a probe hands over
ProbeGameState(p) ==
    [InitialGameState EXCEPT !.savings = p.savings, !.monthlySalary = p.monthlySalary]

ProbeAmounts == {0 - USD(50), 0, USD(50), USD(100), USD(200)}
ProbeDebts == {0, USD(100)}
ProbeCategories == {"Groceries", "Savings & Emergency Fund", "Debt Repayment"}

ApplierProbes ==
    [fn : {"handleNormalAllocation", "handleSavingsAllocation", "handleDebtAllocation"},
     amount : ProbeAmounts, category : ProbeCategories,
     savings : ProbeSavings, debt : ProbeDebts]

\* the GameState an applier probe hands over: a round under way, with one
\* category already recorded
ApplierGameState(p) ==
    [InitialGameState EXCEPT
        !.stage = "budget_allocation",
        !.savings = p.savings,
        !.debt = p.debt,
        !.currentCategoryIndex = 1,
        !.allocations = CategoryAt("v1", 0).name :>
                            [amount |-> USD(100), emoji |-> CategoryAt("v1", 0).emoji],
        !.allocatedAmount = USD(100)]

\* the applier a probe names, applied to its arguments
ApplyProbe(p, amount) ==
    LET gs == ApplierGameState(p)
    IN CASE p.fn = "handleNormalAllocation" ->
                handleNormalAllocation(gs, amount, p.category, "")
         [] p.fn = "handleSavingsAllocation" ->
                handleSavingsAllocation(gs, amount, p.category, "")
         [] p.fn = "handleDebtAllocation" ->
                handleDebtAllocation(gs, amount, p.category, "")

\* incomes handed to generateRandomEvent: none, whole dollars, a half dollar
\* (gross 2044 at 25% tax), negative (gross 2040 at 150% tax)
ProbeIncomes == {0, USD(765), USD(1875), USD(766) + 50, 0 - USD(510)}

EventProbes ==
    [fn : {"generateRandomEvent"}, biweeklyIncome : ProbeIncomes,
     iteration : 1..LastIteration]

\* the summaries handleNextPeriod is called on: of the last two periods, after
\* a round without allocations
PeriodProbes ==
    [fn : {"handleNextPeriod"}, iteration : {LastIteration - 1, LastIteration},
     debt : ProbeDebts]

\* the GameState a period probe hands over
PeriodGameState(p) ==
    [InitialGameState EXCEPT !.stage = "summary", !.iteration = p.iteration,
                             !.grossMonthlySalary = USD(2040),
                             !.monthlySalary = USD(1530), !.biweeklyIncome = USD(765),
                             !.housingCost = USD(1200), !.utilityCost = USD(200),
                             !.currentCategoryIndex = NumCategories,
                             !.debt = p.debt, !.costOfDebt = CostOfDebt(p.debt)]

ProbeInit ==
    /\ client \in {"v1", "v2"}
    /\ gameState = InitialGameState
    /\ grossSalary = 0
    /\ location = <<>>
    /\ savingsExhausted = TRUE
    /\ debtUsedThisRound = 0
    /\ expertAdvice = NoAdvice
    /\ isLoadingAdvice = FALSE
    /\ isLoadingLocation = FALSE
    /\ locationEstimates = NullEstimates
    /\ editableCosts = InitialEditableCosts
    /\ adviceInFlight = {}
    /\ actualMode = "none"
    /\ lastSettlement = NoSettlement
    /\ estimateOutcome = "none"
    /\ roundHistory = RoundStart(InitialGameState)
    /\ choices = 0
    /\ probe \in ModeProbes \cup ApplierProbes \cup EventProbes \cup PeriodProbes
    /\ probeResult = NoResult

CallDetermineAllocationMode ==
    /\ probe.fn = "determineAllocationMode"
    /\ ~probeResult.called
    /\ probeResult' =
          [called |-> TRUE,
           out |-> determineAllocationMode(ProbeGameState(probe),
                                           probe.remainingToAllocate,
                                           probe.debtUsedThisRound,
                                           probe.savingsExhausted)]
    /\ UNCHANGED <<client, gameState, uiVars, savingsExhausted, debtUsedThisRound,
                   expertAdvice, isLoadingAdvice, adviceInFlight, actualMode,
                   lastSettlement, estimateOutcome, roundHistory, choices, probe>>

CallApplier ==
    /\ probe.fn \in {"handleNormalAllocation", "handleSavingsAllocation",
                     "handleDebtAllocation"}
    /\ ~probeResult.called
    /\ probeResult' = [called |-> TRUE, out |-> ApplyProbe(probe, probe.amount)]
    /\ UNCHANGED <<client, gameState, uiVars, savingsExhausted, debtUsedThisRound,
                   expertAdvice, isLoadingAdvice, adviceInFlight, actualMode,
                   lastSettlement, estimateOutcome, roundHistory, choices, probe>>

CallGenerateRandomEvent ==
    /\ probe.fn = "generateRandomEvent"
    /\ ~probeResult.called
    /\ probeResult' =
          [called |-> TRUE,
           out |-> generateRandomEvent(probe.biweeklyIncome, probe.iteration)]
    /\ UNCHANGED <<client, gameState, uiVars, savingsExhausted, debtUsedThisRound,
                   expertAdvice, isLoadingAdvice, adviceInFlight, actualMode,
                   lastSettlement, estimateOutcome, roundHistory, choices, probe>>

CallHandleNextPeriod ==
    /\ probe.fn = "handleNextPeriod"
    /\ ~probeResult.called
    /\ probeResult' =
          [called |-> TRUE, out |-> handleNextPeriod(client, PeriodGameState(probe))]
    /\ UNCHANGED <<client, gameState, uiVars, savingsExhausted, debtUsedThisRound,
                   expertAdvice, isLoadingAdvice, adviceInFlight, actualMode,
                   lastSettlement, estimateOutcome, roundHistory, choices, probe>>

ProbeNext ==
    \/ CallDetermineAllocationMode
    \/ CallApplier
    \/ CallGenerateRandomEvent
    \/ CallHandleNextPeriod

ProbeSpec == ProbeInit /\ [][ProbeNext]_vars

----------------------------------------------------------------------------
(* Properties *)

\* a step that is an allocation submission
Submits ==
    /\ gameState.stage = "budget_allocation"
    /\ gameState'.currentCategoryIndex = gameState.currentCategoryIndex + 1

\* a step that is a period settlement
Settles ==
    /\ gameState.stage = "summary"
    /\ gameState'.stage \in {"budget_allocation", "game_over"}

\* the state a settlement has just produced
JustSettled ==
    /\ lastSettlement # NoSettlement
    /\ gameState.iteration = lastSettlement.iteration + 1
    /\ gameState.currentCategoryIndex = 0

\* C1: in every reachable state of a session savings >= 0 and debt >= 0.
C1_NonNegativeSavingsAndDebt == gameState.savings >= 0 /\ gameState.debt >= 0

\* C1: a state with both savings and debt, after submissions and settlements
C1_Witness ==
    /\ gameState.savings > 0
    /\ gameState.debt > 0
    /\ lastSettlement # NoSettlement
    /\ gameState.currentCategoryIndex > 0

\* C2: in every reachable state allocatedAmount is the sum of the amounts
\* recorded in allocations.
C2_AllocatedAmountIsSum ==
    gameState.allocatedAmount = AllocationTotal(gameState.allocations)

\* C2: a round with several categories recorded, one with a non-zero amount
C2_Witness ==
    /\ Cardinality(DOMAIN gameState.allocations) >= 3
    /\ gameState.allocatedAmount > 0

ModeByDecisionOrder(p) ==
    IF p.remainingToAllocate > 0 THEN "normal"
    ELSE IF p.savings > 0 /\ ~p.savingsExhausted THEN "savings"
    ELSE IF Max(0, p.monthlySalary - 4 * p.debtUsedThisRound) > 0 THEN "debt"
    ELSE "null"

\* C5: determineAllocationMode returns normal when remainingToAllocate > 0,
\* else savings when savings > 0 and not savingsExhausted, else debt when
\* max(0, monthlySalary / 4 - debtUsedThisRound) > 0, else null; with the cap
\* used up and no usable savings it returns null.
C5_ModeFollowsDecisionOrder ==
    (probe.fn = "determineAllocationMode" /\ probeResult.called) =>
        /\ probeResult.out = ModeByDecisionOrder(probe)
        /\ probe.remainingToAllocate > 0 => probeResult.out = "normal"
        /\ (/\ probe.remainingToAllocate <= 0
            /\ probe.savings = 0 \/ probe.savingsExhausted
            /\ 4 * probe.debtUsedThisRound = probe.monthlySalary) => probeResult.out = "null"

\* C5: the call with the cap used up, savings present but exhausted
C5_Witness ==
    /\ probe.fn = "determineAllocationMode"
    /\ probeResult.called
    /\ probeResult.out = "null"
    /\ probe.remainingToAllocate <= 0
    /\ probe.savings > 0
    /\ probe.savingsExhausted
    /\ probe.debtUsedThisRound > 0
    /\ 4 * probe.debtUsedThisRound = probe.monthlySalary

\* C3: a session that completes every allocation phase and advances from every
\* summary performs twelve settlements and reaches game_over; so every summary
\* up to that of iteration 12 lets the player advance with a settlement.
C3_EverySummaryAdvances ==
    gameState.stage = "summary" => ENABLED NextPeriodClick

\* C3: the summary of iteration 12, after eleven settlements
C3_Witness ==
    /\ gameState.stage = "summary"
    /\ gameState.iteration = LastIteration
    /\ lastSettlement.iteration = LastIteration - 1

\* the game over stage is never shown
GameOverNeverReached == gameState.stage # "game_over"

\* C6: a Debt Repayment allocation of X lowers debt once, by min(X, debt), when
\* the Normal applier records it; the settlement of the round does not lower
\* the debt a second time.
C6_DebtRepaymentAppliedOnce ==
    [][/\ (/\ Submits
           /\ actualMode' = "normal"
           /\ CategoryAt(client, gameState.currentCategoryIndex).name = "Debt Repayment")
          => LET X == gameState'.allocatedAmount - gameState.allocatedAmount
             IN gameState'.debt = gameState.debt - Min(X, gameState.debt)
       /\ Settles => gameState'.debt >= gameState.debt]_vars

\* C6: a round in which a Debt Repayment allocation has paid off part of the debt
C6_Witness ==
    /\ gameState.stage = "summary"
    /\ "Debt Repayment" \in DOMAIN gameState.allocations
    /\ gameState.allocations["Debt Repayment"].amount > 0
    /\ gameState.debt > 0

\* C7: once savingsExhausted is true it stays true through the submissions of
\* the round; it becomes false only in a step that takes currentCategoryIndex
\* back to 0: a settlement or a reset of the game.
C7_SavingsExhaustedSticky ==
    [][/\ (savingsExhausted /\ Submits) => savingsExhausted'
       /\ (savingsExhausted /\ ~savingsExhausted') =>
             /\ gameState'.currentCategoryIndex = 0
             /\ gameState.currentCategoryIndex # 0
             /\ Settles \/ gameState' = InitialGameState]_vars

\* C7: the flag, set when a settlement used up the savings, is still set after
\* submissions of the round that followed
C7_Witness ==
    /\ savingsExhausted
    /\ lastSettlement # NoSettlement
    /\ lastSettlement.savings > 0
    /\ gameState.savings = 0
    /\ gameState.iteration = lastSettlement.iteration + 1
    /\ gameState.currentCategoryIndex >= 2

\* C8: a settlement adds the monthly interest debt * 0.15 / 12 to the debt left
\* by the waterfall exactly when the iteration settled is even; debt 1000
\* becomes 1012.5 in an even iteration and stays 1000 in an odd one.
C8_InterestOnEvenIterations ==
    [][/\ AccrueInterest(2, USD(1000)) = 101250
       /\ AccrueInterest(1, USD(1000)) = USD(1000)
       /\ Settles =>
            LET w == Waterfall(SettlementBalance(gameState), gameState.savings,
                               SettlementDebtRepayment(client, gameState))
            IN gameState'.debt - w.debt =
                  IF gameState.iteration % 2 = 0 THEN RoundDiv(w.debt * 15, 1200) ELSE 0]_vars

\* C8: an even iteration settled without a shortfall, the debt grown by interest
C8_Witness ==
    /\ JustSettled
    /\ lastSettlement.iteration % 2 = 0
    /\ lastSettlement.balance >= 0
    /\ lastSettlement.debt > 0
    /\ gameState.debt > lastSettlement.debt

\* C9: after every settlement currentBalance >= 0; when the computed balance is
\* negative the stored balance is 0 and the whole shortfall has gone to the
\* savings and the debt.
C9_BalanceNeverNegative ==
    [][Settles =>
          LET balance == SettlementBalance(gameState)
              drawn == gameState.savings - gameState'.savings
              debtBefore == SettlementDebtRepayment(client, gameState)
          IN /\ gameState'.currentBalance >= 0
             /\ balance >= 0 => gameState'.currentBalance = balance /\ drawn = 0
             /\ balance < 0 =>
                   /\ gameState'.currentBalance = 0
                   /\ drawn >= 0
                   /\ drawn <= 0 - balance
                   /\ gameState'.debt =
                        AccrueInterest(gameState.iteration,
                                       debtBefore + ((0 - balance) - drawn))]_vars

\* C9: a settlement whose computed balance was negative
C9_Witness ==
    /\ JustSettled
    /\ lastSettlement.balance < 0
    /\ gameState.currentBalance = 0

\* C10: for a shortfall S the waterfall leaves savings max(0, savings - S) and
\* adds max(0, S - savings) to the debt, so the debt grows through it only when
\* the savings end at 0; balance -200 with savings 150 gives savings 0, debt + 50
\* and balance 0.
C10_SavingsBeforeDebt ==
    [][/\ Waterfall(0 - USD(200), USD(150), gameState.debt) =
             [balance |-> 0, savings |-> 0, debt |-> gameState.debt + USD(50)]
       /\ (Settles /\ SettlementBalance(gameState) < 0) =>
            LET S == 0 - SettlementBalance(gameState)
                debtBefore == SettlementDebtRepayment(client, gameState)
                added == Max(0, S - gameState.savings)
            IN /\ gameState'.savings = Max(0, gameState.savings - S)
               /\ gameState'.debt =
                     AccrueInterest(gameState.iteration, debtBefore + added)
               /\ added > 0 => gameState'.savings = 0]_vars

\* C10: a shortfall larger than the savings: savings used up, the rest owed
C10_Witness ==
    /\ JustSettled
    /\ lastSettlement.balance < 0
    /\ lastSettlement.savings > 0
    /\ lastSettlement.savings < 0 - lastSettlement.balance
    /\ gameState.savings = 0
    /\ gameState.debt > lastSettlement.debt

ApplierCalled ==
    /\ probe.fn \in {"handleNormalAllocation", "handleSavingsAllocation",
                     "handleDebtAllocation"}
    /\ probeResult.called

\* what an applier commits: allocations, allocatedAmount, savings and debt
Committed(result) ==
    <<result.newGameState.allocations, result.newGameState.allocatedAmount,
      result.newSavings, result.newDebt>>

\* C12 as stated: an applier invoked with a negative amount gives the same
\* allocations, allocatedAmount, savings and debt as one invoked with 0.
C12_NegativeAmountClampedToZero ==
    (ApplierCalled /\ probe.amount < 0) =>
        Committed(probeResult.out) = Committed(ApplyProbe(probe, 0))

\* C12 amended: the appliers do not clamp; each records the amount as given,
\* negative or not, under the category and adds it as given to allocatedAmount,
\* so a negative amount lowers allocatedAmount.
C12_AmountRecordedAsGiven ==
    ApplierCalled =>
        LET old == ApplierGameState(probe)
            new == probeResult.out.newGameState
        IN /\ new.allocations[probe.category].amount = probe.amount
           /\ new.allocatedAmount = old.allocatedAmount + probe.amount
           /\ probe.amount < 0 => new.allocatedAmount < old.allocatedAmount

\* C12: an applier has been invoked with a negative amount
C12_Witness ==
    /\ ApplierCalled
    /\ probe.amount < 0
    /\ probeResult.out.newGameState.allocations[probe.category].amount < 0

\* C13: the Normal applier with amount X >= 0: the savings category adds X to
\* savings; debt repayment with debt > 0 clears the debt and credits X - debt
\* to savings when X >= debt, lowers the debt by X when 0 < X < debt; debt
\* repayment with debt = 0 credits X to savings; any other category leaves
\* savings and debt as they were.
C13_NormalApplier ==
    (ApplierCalled /\ probe.fn = "handleNormalAllocation" /\ probe.amount >= 0) =>
        LET X == probe.amount
            newSavings == probeResult.out.newSavings
            newDebt == probeResult.out.newDebt
        IN CASE probe.category = "Savings & Emergency Fund" ->
                    newSavings = probe.savings + X /\ newDebt = probe.debt
             [] probe.category = "Debt Repayment" /\ probe.debt > 0 /\ X >= probe.debt ->
                    newDebt = 0 /\ newSavings = probe.savings + (X - probe.debt)
             [] probe.category = "Debt Repayment" /\ probe.debt > 0 /\ 0 < X /\ X < probe.debt ->
                    newDebt = probe.debt - X /\ newSavings = probe.savings
             [] probe.category = "Debt Repayment" /\ probe.debt = 0 ->
                    newDebt = 0 /\ newSavings = probe.savings + X
             [] OTHER ->
                    newSavings = probe.savings /\ newDebt = probe.debt

\* C13: a repayment larger than the debt, the excess credited to the savings
C13_Witness ==
    /\ ApplierCalled
    /\ probe.fn = "handleNormalAllocation"
    /\ probe.category = "Debt Repayment"
    /\ probe.debt > 0
    /\ probe.amount > probe.debt
    /\ probeResult.out.newDebt = 0
    /\ probeResult.out.newSavings > probe.savings

\* C14: the Savings-funded applier with amount X >= 0: savings become
\* max(0, savings - X), debt grows by max(0, X - savings), the two changes add
\* up to X, and savingsExhausted is returned true exactly when the resulting
\* savings are 0.
C14_SavingsApplier ==
    (ApplierCalled /\ probe.fn = "handleSavingsAllocation" /\ probe.amount >= 0) =>
        LET X == probe.amount
            newSavings == probeResult.out.newSavings
            newDebt == probeResult.out.newDebt
        IN /\ newSavings = Max(0, probe.savings - X)
           /\ newDebt = probe.debt + Max(0, X - probe.savings)
           /\ (probe.savings - newSavings) + (newDebt - probe.debt) = X
           /\ probeResult.out.savingsExhausted = (newSavings = 0)

\* C14: the savings used up exactly, without overdraw
C14_Witness ==
    /\ ApplierCalled
    /\ probe.fn = "handleSavingsAllocation"
    /\ probe.savings > 0
    /\ probe.amount = probe.savings
    /\ probeResult.out.newSavings = 0
    /\ probeResult.out.newDebt = probe.debt
    /\ probeResult.out.savingsExhausted

\* C15: the stage changes only from salary to location, from location to
\* budget_allocation, from budget_allocation to summary when the ninth category
\* is submitted, from summary to budget_allocation by a settlement whose new
\* iteration is at most 12, from summary to game_over by one whose new
\* iteration exceeds 12, and to salary by a reset.
C15_StageTransitions ==
    [][/\ gameState'.stage # gameState.stage =>
            \/ gameState.stage = "salary" /\ gameState'.stage = "location"
            \/ gameState.stage = "location" /\ gameState'.stage = "budget_allocation"
            \/ /\ gameState.stage = "budget_allocation"
               /\ gameState'.stage = "summary"
               /\ gameState.currentCategoryIndex = 8
               /\ gameState'.currentCategoryIndex = 9
            \/ /\ gameState.stage = "summary"
               /\ gameState'.stage = "budget_allocation"
               /\ gameState'.iteration = gameState.iteration + 1
               /\ gameState'.iteration <= 12
            \/ /\ gameState.stage = "summary"
               /\ gameState'.stage = "game_over"
               /\ gameState'.iteration = gameState.iteration + 1
               /\ gameState'.iteration > 12
            \/ gameState'.stage = "salary" /\ gameState' = InitialGameState
       /\ (Submits /\ gameState.currentCategoryIndex < 8) =>
            gameState'.stage = "budget_allocation"]_vars

\* C15: a second summary, reached through every stage and one settlement
C15_Witness ==
    /\ gameState.stage = "summary"
    /\ gameState.iteration = 2
    /\ lastSettlement.iteration = 1
    /\ gameState.currentCategoryIndex = 9

\* C16: a non-positive salary and an empty or blank location are rejected
\* before any transition, so no state at or after budget_allocation has
\* grossMonthlySalary <= 0 or an empty location.
C16_ValidatedInputsOnly ==
    gameState.stage \in {"budget_allocation", "summary", "game_over"} =>
        /\ gameState.grossMonthlySalary > 0
        /\ Trim(gameState.location) # <<>>

\* C16: estimates on screen and the location input blank again
C16_Witness ==
    /\ gameState.stage = "location"
    /\ locationEstimates # NullEstimates
    /\ ~isLoadingLocation
    /\ Trim(location) = <<>>

\* the rejections themselves change nothing
RejectedSubmissionsChangeNothing ==
    [][/\ (gameState.stage = "salary" /\ grossSalary <= 0) =>
             gameState'.stage = "salary" /\ gameState' = gameState
       /\ (gameState.stage = "location" /\ locationEstimates = NullEstimates
              /\ Trim(location) = <<>>) =>
             gameState' = gameState /\ ~isLoadingLocation']_vars

\* C17: whenever the request for location estimates has failed (network
\* error, non-OK response, undecodable answer, answer lacking a field), the
\* estimates kept are exactly 1200 / 200 / 25, the loading flag is cleared,
\* and the session can still go on to the budget allocation.
C17_FailedEstimateFallsBack ==
    estimateOutcome \in FailedOutcomes =>
        /\ locationEstimates =
              [housing_cost |-> USD(1200), utility_cost |-> USD(200), tax_rate |-> 25]
        /\ ~isLoadingLocation
        /\ gameState.stage = "location" => ENABLED handleContinueWithCosts

\* a request has ended in a non-OK response and the fallback is on screen
C17_Witness ==
    /\ estimateOutcome = "no_api_key"
    /\ locationEstimates = FallbackEstimates
    /\ editableCosts = FallbackEstimates
    /\ ~isLoadingLocation
    /\ gameState.stage = "location"

\* generateRandomEvent has been called on the probe's arguments
EventCalled == probe.fn = "generateRandomEvent" /\ probeResult.called

\* for an income of whole dollars that is not negative, the event is the entry
\* at index (biweeklyIncome + iteration) mod 10
EventAtIndexForWholeIncome ==
    EventCalled /\ IsWholeDollars(probe.biweeklyIncome) /\ probe.biweeklyIncome >= 0 =>
        /\ USD(probeResult.out.index) = (probe.biweeklyIncome + USD(probe.iteration)) % USD(10)
        /\ probeResult.out.adjustment =
              EventAdjustment(probe.biweeklyIncome, probeResult.out.index)

\* C18: for every biweeklyIncome the engine can hold and every iteration
\* 1..12, generateRandomEvent returns the entry at index
\* (biweeklyIncome + iteration) mod 10 of the events table.
C18_EventAtModularIndex ==
    EventCalled =>
        /\ USD(probeResult.out.index) = (probe.biweeklyIncome + USD(probe.iteration)) % USD(10)
        /\ probeResult.out.adjustment =
              EventAdjustment(probe.biweeklyIncome, probeResult.out.index)

\* the event of a round whose income is not a whole number of dollars
C18_Witness ==
    /\ EventCalled
    /\ ~IsWholeDollars(probe.biweeklyIncome)
    /\ probeResult.out.index = 0

\* C19: the step that starts the budget allocation sets monthlySalary to
\* grossMonthlySalary * (1 - taxRate / 100) and biweeklyIncome to half of it
\* (5000 at 25%: 3750 and 1875); from then on no step other than a reset
\* changes either of them.
C19_IncomeFixedAtContinue ==
    [][/\ gameState.stage = "location" /\ gameState'.stage = "budget_allocation" =>
           /\ gameState'.monthlySalary * 100 =
                 gameState'.grossMonthlySalary * (100 - gameState'.taxRate)
           /\ gameState'.biweeklyIncome * 2 = gameState'.monthlySalary
       /\ gameState.stage \notin {"salary", "location"} /\ gameState'.stage # "salary" =>
           /\ gameState'.monthlySalary = gameState.monthlySalary
           /\ gameState'.biweeklyIncome = gameState.biweeklyIncome
       /\ NetMonthlySalary(USD(5000), 25) = USD(3750)
       /\ USD(3750) \div 2 = USD(1875)]_vars

\* a later round of a session that started with 2040 at 25%
C19_Witness ==
    /\ gameState.stage = "summary"
    /\ gameState.iteration = 2
    /\ gameState.grossMonthlySalary = USD(2040)
    /\ gameState.taxRate = 25
    /\ gameState.monthlySalary = USD(1530)
    /\ gameState.biweeklyIncome = USD(765)

\* grossMonthlySalary is never negative
GrossSalaryNonNegative == gameState.grossMonthlySalary >= 0

\* C20: grossMonthlySalary, monthlySalary and biweeklyIncome are non-negative
\* in every reachable state, whatever the user enters for the salary and for
\* the editable housing cost, utility cost and tax rate.
C20_IncomeNonNegative ==
    /\ gameState.grossMonthlySalary >= 0
    /\ gameState.monthlySalary >= 0
    /\ gameState.biweeklyIncome >= 0

\* a budget allocation that started with a tax rate above 100
C20_Witness ==
    /\ gameState.stage = "budget_allocation"
    /\ gameState.grossMonthlySalary > 0
    /\ gameState.taxRate > 100
    /\ gameState.monthlySalary < 0
    /\ gameState.biweeklyIncome < 0

\* the allocation phase, with nothing left to allocate and savings that have
\* not been drawn down to zero in this round
SavingsStillUntouched ==
    /\ gameState.stage = "budget_allocation"
    /\ RemainingToAllocate(gameState) <= 0
    /\ gameState.savings > 0
    /\ roundHistory.zeroSavings # "reached"

\* the same, for savings that were there when the round started
SavingsKeptSinceRoundStart ==
    SavingsStillUntouched /\ roundHistory.zeroSavings = "never"

\* savings that have been above zero throughout the round are used before debt
SavingsKeptAreUsedFirst == SavingsKeptSinceRoundStart => AllocationMode = "savings"

\* C21: whenever, during the allocation phase, remainingToAllocate <= 0 and
\* savings > 0 and savings have not reached zero within the current round,
\* the next category is funded in savings mode and never in debt mode.
C21_SavingsUsedBeforeDebt ==
    SavingsStillUntouched => AllocationMode = "savings"

\* money saved in the first round, nothing left to allocate, and debt offered
C21_Witness ==
    /\ SavingsStillUntouched
    /\ gameState.iteration = 1
    /\ savingsExhausted
    /\ AllocationMode = "debt"
    /\ ENABLED UseDebtClick(0)

\* C22: every time the summary stage is entered an advice request is issued
\* for that round, and the advice shown in a summary or at game over was
\* produced from that round's iteration and allocations, never for an
\* earlier round.
C22_AdviceIsOfThisRound ==
    [][/\ (gameState.stage # "summary" /\ gameState'.stage = "summary") =>
            gameState'.iteration \in adviceInFlight'
       /\ (gameState'.stage \in {"summary", "game_over"}
              /\ expertAdvice'.kind = "advice") =>
            expertAdvice'.iteration = gameState'.iteration]_vars

\* the summary of the second round, showing what was written for the first
C22_Witness ==
    /\ gameState.stage = "summary"
    /\ gameState.iteration = 2
    /\ expertAdvice = [kind |-> "advice", iteration |-> 1]
    /\ ~isLoadingAdvice
    /\ adviceInFlight = {}

\* C23: a settlement computes balance = periodIncome - fixedCosts -
\* allocatedAmount + event adjustment, with fixedCosts = housingCost / 2 +
\* utilityCost / 2 and periodIncome = biweeklyIncome at iteration 1 and
\* currentBalance + biweeklyIncome later; currentBalance = 0 throughout
\* iteration 1, so adding it unconditionally gives the same.
C23_SettlementBalance ==
    [][/\ Settles =>
            LET periodIncome ==
                    IF gameState.iteration = 1 THEN gameState.biweeklyIncome
                    ELSE gameState.currentBalance + gameState.biweeklyIncome
                fixedCosts == gameState.housingCost \div 2 + gameState.utilityCost \div 2
                event == generateRandomEvent(gameState.biweeklyIncome, gameState.iteration)
                balance == periodIncome - fixedCosts - gameState.allocatedAmount
                              + event.adjustment
            IN /\ lastSettlement'.balance = balance
               /\ gameState'.currentBalance = Max(0, balance)
       /\ gameState'.iteration = 1 => gameState'.currentBalance = 0]_vars

\* a settlement of a later round that started with a balance carried over
C23_Witness ==
    /\ JustSettled
    /\ lastSettlement.iteration > 1
    /\ lastSettlement.currentBalance > 0
    /\ gameState.currentBalance > 0

\* C24: each settlement sets iteration to iteration + 1, currentCategoryIndex
\* to 0, allocations to empty, allocatedAmount to 0 and debtUsedThisRound to
\* 0, and leaves grossMonthlySalary, monthlySalary, biweeklyIncome, location,
\* housingCost, utilityCost and taxRate unchanged.
C24_SettlementFrame ==
    [][Settles =>
          /\ gameState'.iteration = gameState.iteration + 1
          /\ gameState'.currentCategoryIndex = 0
          /\ DOMAIN gameState'.allocations = {}
          /\ gameState'.allocatedAmount = 0
          /\ debtUsedThisRound' = 0
          /\ gameState'.grossMonthlySalary = gameState.grossMonthlySalary
          /\ gameState'.monthlySalary = gameState.monthlySalary
          /\ gameState'.biweeklyIncome = gameState.biweeklyIncome
          /\ gameState'.location = gameState.location
          /\ gameState'.housingCost = gameState.housingCost
          /\ gameState'.utilityCost = gameState.utilityCost
          /\ gameState'.taxRate = gameState.taxRate]_vars

\* a settlement of a round in which money was allocated and debt was drawn
C24_Witness ==
    /\ JustSettled
    /\ lastSettlement.allocatedAmount > 0
    /\ lastSettlement.debtUsedThisRound > 0
    /\ gameState.allocatedAmount = 0
    /\ debtUsedThisRound = 0

\* handleNextPeriod, called on the summary of iteration 12, ends the game at
\* iteration 13; called on that of iteration 11 it opens round 12
NextPeriodEndsGameAfterLastIteration ==
    (probe.fn = "handleNextPeriod" /\ probeResult.called) =>
        /\ probeResult.out.iteration = probe.iteration + 1
        /\ probeResult.out.stage = "game_over" <=> probe.iteration = 12

\* C25: in every reachable state iteration is in 1..13; it changes only by +1
\* at a settlement, or back to 1 at a reset; and the stage is game_over
\* exactly when iteration > 12.
C25_IterationRange ==
    [][/\ gameState'.iteration \in 1..13
       /\ gameState'.iteration # gameState.iteration =>
            \/ Settles /\ gameState'.iteration = gameState.iteration + 1
            \/ gameState' = InitialGameState
       /\ gameState'.stage = "game_over" <=> gameState'.iteration > 12]_vars

\* the twelfth round, opened by the eleventh settlement
C25_Witness ==
    /\ JustSettled
    /\ gameState.iteration = 12
    /\ gameState.stage = "budget_allocation"

\* the names of the categories before the given 0-based index
CategoriesPassed(c, index) == {CategoryAt(c, i).name : i \in 0..(index - 1)}

\* C26: during a round currentCategoryIndex is in 0..9 and never decreases,
\* there is exactly one allocation record for each category already passed
\* and none for the others, and the stage is summary exactly when
\* currentCategoryIndex = 9.
C26_OneRecordPerCategoryPassed ==
    [][/\ gameState'.currentCategoryIndex \in 0..9
       /\ gameState'.currentCategoryIndex < gameState.currentCategoryIndex =>
            /\ Settles \/ gameState' = InitialGameState
            /\ gameState'.currentCategoryIndex = 0
       /\ Cardinality(DOMAIN gameState'.allocations) = gameState'.currentCategoryIndex
       /\ DOMAIN gameState'.allocations =
             CategoriesPassed(client, gameState'.currentCategoryIndex)
       /\ gameState'.stage = "summary" <=> gameState'.currentCategoryIndex = 9]_vars

\* a later round, five categories passed, one of them with money in it
C26_Witness ==
    /\ gameState.stage = "budget_allocation"
    /\ gameState.iteration > 1
    /\ gameState.currentCategoryIndex = 5
    /\ Cardinality(DOMAIN gameState.allocations) = 5
    /\ gameState.allocatedAmount > 0

C28_CostOfDebtFollowsDebt ==
    Abs(2600 * gameState.costOfDebt - 15 * gameState.debt) <= 1300

\* debt that a settlement has just raised, with interest, from a lower debt
C28_Witness ==
    /\ JustSettled
    /\ lastSettlement.iteration % 2 = 0
    /\ lastSettlement.debt > 0
    /\ gameState.debt > lastSettlement.debt
    /\ gameState.costOfDebt > 0

\* C29: over a round without interest accrual, net worth (currentBalance +
\* savings - debt) changes from the start of the allocation phase to the end
\* of the settlement by biweeklyIncome - fixed costs + event adjustment -
\* the total allocated to the seven consumption categories, whichever mode
\* funded each allocation.
C29_AllocationsChargedOnce ==
    [][(Settles /\ gameState.iteration % 2 = 1) =>
          (gameState'.currentBalance + gameState'.savings - gameState'.debt)
              - roundHistory.netWorth
          = gameState.biweeklyIncome
              - (gameState.housingCost \div 2 + gameState.utilityCost \div 2)
              + generateRandomEvent(gameState.biweeklyIncome, gameState.iteration).adjustment
              - ConsumptionTotal(client, gameState.allocations)]_vars

\* a round without interest in which debt funded a consumption category, and
\* whose settlement charged that amount a second time
C29_Witness ==
    /\ JustSettled
    /\ lastSettlement.iteration % 2 = 1
    /\ lastSettlement.debtUsedThisRound > 0
    /\ lastSettlement.consumption = lastSettlement.debtUsedThisRound
    /\ NetWorth(gameState) - lastSettlement.roundStartNetWorth
         = gameState.biweeklyIncome - BiweeklyFixedCosts(gameState)
             + generateRandomEvent(gameState.biweeklyIncome,
                                   lastSettlement.iteration).adjustment
             - 2 * lastSettlement.consumption

\* a settlement commits what the summary showed, with the interest of an even
\* iteration added to the debt
CommitsWhatWasShown ==
    LET shown == SummaryStage(client, gameState)
    IN /\ gameState'.currentBalance = shown.newBalance
       /\ gameState'.savings = shown.newSavings
       /\ gameState'.debt =
             (IF gameState.iteration % 2 = 0 /\ shown.newDebt > 0
              THEN shown.newDebt + RoundDiv(shown.newDebt * 15, 1200) ELSE shown.newDebt)
       /\ shown.event = generateRandomEvent(gameState.biweeklyIncome, gameState.iteration)

\* when the income covers the fixed costs and the cost of debt, the summary
\* shows what the settlement commits
ShownIsCommittedWhenIncomeCoversCosts ==
    [][(Settles /\ DiscretionaryIncome(gameState) >= 0) => CommitsWhatWasShown]_vars

\* C30: the balance, savings and debt shown in the summary stage for a round
\* equal those that handleNextPeriod commits for that round before interest
\* accrual, and both use the same random event.
C30_SummaryShowsWhatIsCommitted ==
    [][Settles => CommitsWhatWasShown]_vars

\* a settlement of a round whose fixed costs exceeded the income: the summary
\* showed more debt than was committed
C30_Witness ==
    /\ JustSettled
    /\ lastSettlement.iteration % 2 = 1
    /\ lastSettlement.discretionaryIncome < 0
    /\ lastSettlement.shown.newDebt > gameState.debt
    /\ lastSettlement.shown.newBalance = gameState.currentBalance

====
